---- MODULE Spec2Model ----
(***************************************************************************)
(* A model of czdb-search-golang: the CZDB file reader (pkg/db) and its     *)
(* two-level range search, TreeSearch, in MEMORY and BTREE mode.           *)
(*                                                                         *)
(* Bytes are integers 0..255, byte slices are sequences, and every offset  *)
(* is 0-based as in the Go source (Slice(b, lo, hi) is Go's b[lo:hi]).     *)
(* Strings are sequences of byte values.                                   *)
(***************************************************************************)
EXTENDS Integers, Sequences, FiniteSets, TLC

(***************************************************************************)
(* Bounds of the model.                                                    *)
(***************************************************************************)
\* query and range IPs are drawn from the keys 0..MaxIP
MaxIP == 4
\* a database holds 1..MaxRecs index records
MaxRecs == 3

(***************************************************************************)
(* Program constants.                                                      *)
(***************************************************************************)
SuperPartLength == 17
HeaderBlockLength == 20
IPV4 == 4
IPV6 == 6
MaxGeoSize == 100000000
MaxEncryptedBlockSize == 1000000
ExpirationDateMask == 1048575
ClientIdShift == 20

MEMORY == "MEMORY"
BTREE == "BTREE"

(***************************************************************************)
(* Byte helpers.                                                           *)
(***************************************************************************)
Min(a, b) == IF a < b THEN a ELSE b

Max(a, b) == IF a > b THEN a ELSE b

\* Go's b[lo:hi]
Slice(b, lo, hi) == SubSeq(b, lo + 1, hi)

Zeros(n) == [i \in 1..n |-> 0]

RECURSIVE BitXor(_, _, _)
BitXor(a, b, n) ==
    IF n = 0 THEN 0
    ELSE (((a % 2) + (b % 2)) % 2) + 2 * BitXor(a \div 2, b \div 2, n - 1)

RECURSIVE BitAnd(_, _, _)
BitAnd(a, b, n) ==
    IF n = 0 THEN 0
    ELSE ((a % 2) * (b % 2)) + 2 * BitAnd(a \div 2, b \div 2, n - 1)

\* utils.GetIntLong: a little-endian int32 (the fourth byte carries the sign),
\* 0 when out of bounds
GetIntLong(b, offset) ==
    IF offset + 4 > Len(b) THEN 0
    ELSE b[offset + 1] + 256 * b[offset + 2] + 65536 * b[offset + 3]
         + 16777216 * (IF b[offset + 4] >= 128 THEN b[offset + 4] - 256
                       ELSE b[offset + 4])

\* compareBytes with the bytes taken as signed (int8) values
RECURSIVE compareFromSigned(_, _, _, _)
compareFromSigned(bytes1, bytes2, length, i) ==
    IF i >= length \/ i >= Len(bytes1) \/ i >= Len(bytes2) THEN 0
    ELSE LET s1 == IF bytes1[i + 1] >= 128 THEN bytes1[i + 1] - 256 ELSE bytes1[i + 1]
             s2 == IF bytes2[i + 1] >= 128 THEN bytes2[i + 1] - 256 ELSE bytes2[i + 1]
         IN IF s1 < s2 THEN -1
            ELSE IF s1 > s2 THEN 1
            ELSE compareFromSigned(bytes1, bytes2, length, i + 1)

compareBytesSigned(bytes1, bytes2, length) == compareFromSigned(bytes1, bytes2, length, 0)

\* compareBytes: the first `length` bytes, stopping at the shorter slice's end
RECURSIVE compareFrom(_, _, _, _)
compareFrom(bytes1, bytes2, length, i) ==
    IF i >= length \/ i >= Len(bytes1) \/ i >= Len(bytes2) THEN 0
    ELSE IF bytes1[i + 1] < bytes2[i + 1] THEN -1
    ELSE IF bytes1[i + 1] > bytes2[i + 1] THEN 1
    ELSE compareFrom(bytes1, bytes2, length, i + 1)

compareBytes(bytes1, bytes2, length) == compareFrom(bytes1, bytes2, length, 0)

\* cleanString: keeps the characters in [32,126]; ranging over a Go string
\* decodes UTF-8, every byte >= 128 belongs to a rune above 126 (or to U+FFFD)
RECURSIVE cleanString(_)
cleanString(s) ==
    IF s = <<>> THEN <<>>
    ELSE (IF Head(s) >= 32 /\ Head(s) <= 126 THEN <<Head(s)>> ELSE <<>>)
         \o cleanString(Tail(s))

\* XorDecrypt with the key taken from its second byte on
XorDecryptShifted(encryptedBytes, keyBytes) ==
    [i \in 1..Len(encryptedBytes) |->
        BitXor(encryptedBytes[i], keyBytes[(i % Len(keyBytes)) + 1], 8)]

\* the geo section's decryption in loadGeoMapping: repeating-key XOR
XorDecrypt(encryptedBytes, keyBytes) ==
    [i \in 1..Len(encryptedBytes) |->
        BitXor(encryptedBytes[i], keyBytes[((i - 1) % Len(keyBytes)) + 1], 8)]

(***************************************************************************)
(* The key and the block cipher.  A key string is a sequence of base64     *)
(* symbols: 0..63 the alphabet, Pad the '=' sign, NotBase64 a character    *)
(* outside the alphabet.                                                   *)
(***************************************************************************)
AESBlockSize == 16

Pad == 64

NotBase64 == 65

\* base64.StdEncoding.DecodeString: quanta of four symbols, padding only in
\* the last one or two places of the last quantum
Base64Decode(encoded) ==
    LET n == Len(encoded)
        pads == Cardinality({ i \in 1..n : encoded[i] = Pad })
        v(i) == IF encoded[i] = Pad THEN 0 ELSE encoded[i]
        byte(j) ==
            LET q == 4 * (j \div 3)
            IN CASE j % 3 = 0 -> v(q + 1) * 4 + v(q + 2) \div 16
                 [] j % 3 = 1 -> (v(q + 2) % 16) * 16 + v(q + 3) \div 4
                 [] OTHER -> (v(q + 3) % 4) * 64 + v(q + 4)
    IN IF \/ n % 4 # 0
          \/ \E i \in 1..n : encoded[i] = NotBase64
          \/ \E i \in 1..n : encoded[i] = Pad /\ i < n - 1
          \/ (n > 0 /\ encoded[n - 1] = Pad /\ encoded[n] # Pad)
       THEN [err |-> "base64 decode error", bytes |-> <<>>]
       ELSE [err |-> "", bytes |-> [j \in 1..(3 * (n \div 4) - pads) |-> byte(j - 1)]]

\* cipher.Decrypt on one block: crypto/aes is library code, and a keyed
\* one-to-one map on blocks stands for it
BlockDecrypt(key, src) ==
    [i \in 1..AESBlockSize |->
        BitXor(src[AESBlockSize + 1 - i], key[((i * 5) % Len(key)) + 1], 8)]

\* AESECBDecrypt without the block-size check: the trailing partial block is
\* dropped
AESECBDecryptWholeBlocks(encryptedData, key) ==
    IF Len(encryptedData) = 0 THEN [err |-> "", bytes |-> <<>>]
    ELSE IF Len(key) \notin {16, 24, 32}
    THEN [err |-> "failed to create AES cipher", bytes |-> <<>>]
    ELSE [err |-> "",
          bytes |-> [i \in 1..(Len(encryptedData) \div AESBlockSize) * AESBlockSize |->
                      LET bs == ((i - 1) \div AESBlockSize) * AESBlockSize
                      IN BlockDecrypt(key, Slice(encryptedData, bs, bs + AESBlockSize))
                             [i - bs]]]

AESECBDecrypt(encryptedData, key) ==
    IF Len(encryptedData) = 0 THEN [err |-> "", bytes |-> <<>>]
    ELSE IF Len(encryptedData) % AESBlockSize # 0
    THEN [err |-> "not a multiple of AES block size", bytes |-> <<>>]
    ELSE IF Len(key) \notin {16, 24, 32}
    THEN [err |-> "failed to create AES cipher", bytes |-> <<>>]
    ELSE [err |-> "",
          bytes |-> [i \in 1..Len(encryptedData) |->
                      LET bs == ((i - 1) \div AESBlockSize) * AESBlockSize
                      IN BlockDecrypt(key, Slice(encryptedData, bs, bs + AESBlockSize))
                             [i - bs]]]

DecryptEncryptedBytes(encryptedBytes, key) ==
    LET keyBytes == Base64Decode(key)
    IN IF keyBytes.err # "" THEN keyBytes
       ELSE IF Len(keyBytes.bytes) \notin {16, 24, 32}
       THEN [err |-> "invalid key length", bytes |-> <<>>]
       ELSE AESECBDecrypt(encryptedBytes, keyBytes.bytes)

\* the base64 text of a key of n bytes
KeyText(n) ==
    LET m == (8 * n + 5) \div 6
    IN [i \in 1..(4 * ((m + 3) \div 4)) |-> IF i <= m THEN (i * 7 + 3) % 64 ELSE Pad]

(***************************************************************************)
(* The database file.  A well-formed file is laid out as                   *)
(*   [HyperHeader 12][EncryptedBlock][RandomPadding]                       *)
(*   [SuperBlock 17][HeaderBlock][data records][index records]            *)
(*   [ColumnSelection 4][GeoDataSize 4][XOR-encrypted GeoData]             *)
(* Pointers stored in the file are relative to the super block's start.    *)
(***************************************************************************)
\* the key string given to InitDBSearcher, and its 16 decoded bytes, used
\* for the encrypted block and for the geo section's XOR
DBKey == KeyText(16)

KeyBytes == Base64Decode(DBKey).bytes

EncryptedBlockSize == Len(KeyBytes)

RandomSize == 3

\* how far a damaged header pointer is moved
DamageShift == 4096

LE32(u) == << u % 256, (u \div 256) % 256, (u \div 65536) % 256, (u \div 16777216) % 256 >>

\* the inverse of BlockDecrypt, block by block
BlockEncrypt(key, plain) ==
    [j \in 1..Len(plain) |->
        LET bs == ((j - 1) \div AESBlockSize) * AESBlockSize
            i == AESBlockSize + 1 - (j - bs)
        IN BitXor(plain[bs + i], key[((i * 5) % Len(key)) + 1], 8)]

\* the secret: client id 7 and expiration date 211231 in one word, the size
\* of the random padding, and filler up to n bytes
SecretPlain(n) == LE32(7 * 1048576 + 211231) \o LE32(RandomSize) \o Zeros(n - 8)

\* version, client id, encrypted block size, the encrypted block, the padding
HyperPart ==
    LE32(3) \o LE32(7) \o LE32(EncryptedBlockSize)
    \o BlockEncrypt(KeyBytes, SecretPlain(EncryptedBlockSize))
    \o [i \in 1..RandomSize |-> 170]

\* the hyper header of an irregular file: the size field holds 0, -1,
\* 1000000 or 1000001 ("size0", "sizeneg", "sizemax", "sizebig"), or the
\* encrypted block has two cipher blocks ("twoblocks")
HyperPartOf(db) ==
    CASE db.damaged = "size0" -> [HyperPart EXCEPT ![9] = 0]
      [] db.damaged = "sizeneg" ->
           [HyperPart EXCEPT ![9] = 255, ![10] = 255, ![11] = 255, ![12] = 255]
      [] db.damaged = "sizemax" ->
           SubSeq(HyperPart, 1, 8) \o LE32(MaxEncryptedBlockSize)
           \o SubSeq(HyperPart, 13, Len(HyperPart))
      [] db.damaged = "sizebig" ->
           SubSeq(HyperPart, 1, 8) \o LE32(MaxEncryptedBlockSize + 1)
           \o SubSeq(HyperPart, 13, Len(HyperPart))
      [] db.damaged = "twoblocks" ->
           LE32(3) \o LE32(7) \o LE32(2 * EncryptedBlockSize)
           \o BlockEncrypt(KeyBytes, SecretPlain(2 * EncryptedBlockSize))
           \o [i \in 1..RandomSize |-> 170]
      [] OTHER -> HyperPart

\* the address bytes of key k: a.0.0.b for IPv4, 2001::a:b for IPv6
IP4(k) == << (k \div 4) * 60, 0, 0, (k % 4) * 80 >>

IP6(k) == <<32, 1>> \o Zeros(12) \o << (k \div 4) * 60, (k % 4) * 80 >>

WidthOf(dbType) == IF dbType = 0 THEN 4 ELSE 16

IPOf(dbType, k) == IF dbType = 0 THEN IP4(k) ELSE IP6(k)

\* the column array every secondary pointer of the file points at
\* (msgpack ["CN", "", "B"]), at offset 0 of the geo section
GeoColumns == <<147, 162, 67, 78, 160, 161, 66>>

\* record i's fallback string; record 2's holds a control and a non-ASCII byte
FallbackOf(i) == IF i = 2 THEN <<66, 7, 200>> ELSE <<64 + i>>

\* record i's data: msgpack uint geoPosMixSize, then msgpack str fallback
\*   i % 3 = 1: a secondary pointer to GeoColumns (length 7, pointer 0)
\*   i % 3 = 2: geoPosMixSize = 0
\*   i % 3 = 0: a secondary pointer outside the geo section
DataRec(i) ==
    (CASE i % 3 = 1 -> <<206, Len(GeoColumns), 0, 0, 0>>
       [] i % 3 = 2 -> <<0>>
       [] OTHER -> <<206, 1, 255, 255, 255>>)
    \o <<160 + Len(FallbackOf(i))>> \o FallbackOf(i)

RECURSIVE DataLenSum(_)
DataLenSum(n) == IF n = 0 THEN 0 ELSE DataLenSum(n - 1) + Len(DataRec(n))

RECURSIVE DataArea(_)
DataArea(n) == IF n = 0 THEN <<>> ELSE DataArea(n - 1) \o DataRec(n)

\* a database description: address family, ranges (pairs of keys, ascending
\* and disjoint), the records that have a header entry, the column mask
HdrCount(db) == Cardinality(db.hdr)

DataStart(db) == SuperPartLength + HeaderBlockLength * HdrCount(db)

IndexStart(db) == DataStart(db) + DataLenSum(Len(db.recs))

StrideOf(db) == 2 * WidthOf(db.dbType) + 5

RecPtr(db, i) == IndexStart(db) + (i - 1) * StrideOf(db)

DataPtrOf(db, i) == DataStart(db) + DataLenSum(i - 1)

\* the geo section: the column array, padded so that every data pointer of
\* the file is below its length (TreeSearch checks them against it)
\* In a file with a short geo section the section ends one byte after the
\* start of the last record's data.
GeoPlain(db) ==
    IF db.damaged = "geoshort"
    THEN GeoColumns \o Zeros(DataPtrOf(db, Len(db.recs)) + 1 - Len(GeoColumns))
    ELSE GeoColumns \o Zeros(IndexStart(db) - Len(GeoColumns))

\* the pointer of record i's header entry; in a damaged file the first or
\* the last header pointer was overwritten and lies beyond the file's end
HdrPtrOf(db, i) ==
    IF (db.damaged = "first" /\ i = 1) \/ (db.damaged = "last" /\ i = Len(db.recs))
    THEN RecPtr(db, i) + DamageShift
    ELSE RecPtr(db, i)

RECURSIVE HeaderBytes(_, _)
HeaderBytes(db, i) ==
    IF i > Len(db.recs) THEN <<>>
    ELSE (IF i \in db.hdr
          THEN IPOf(db.dbType, db.recs[i][1])
               \o Zeros(16 - WidthOf(db.dbType))
               \o LE32(HdrPtrOf(db, i))
          ELSE <<>>)
         \o HeaderBytes(db, i + 1)

\* the 4-byte pointer field of index record i; in a file damaged "ptrhigh"
\* its fourth byte is not zero
PointerField(db, i) ==
    IF db.damaged = "ptrhigh" THEN [LE32(DataPtrOf(db, i)) EXCEPT ![4] = 1]
    ELSE LE32(DataPtrOf(db, i))

RECURSIVE IndexBytes(_, _)
IndexBytes(db, i) ==
    IF i > Len(db.recs) THEN <<>>
    ELSE IPOf(db.dbType, db.recs[i][1]) \o IPOf(db.dbType, db.recs[i][2])
         \o PointerField(db, i) \o <<Len(DataRec(i))>>
         \o IndexBytes(db, i + 1)

BodyLen(db) ==
    IndexStart(db) + Len(db.recs) * StrideOf(db) + 8
    + (IF db.colSel = 0 THEN 0 ELSE Len(GeoPlain(db)))

SuperBytes(db) ==
    <<db.dbType>> \o LE32(BodyLen(db)) \o LE32(IndexStart(db))
    \o LE32(HeaderBlockLength * HdrCount(db)
            + (IF db.damaged = "hdrsize" THEN BodyLen(db) ELSE 0))
    \o LE32(RecPtr(db, Len(db.recs)))

\* the geo size field: in an irregular file it holds 100000001 ("geobig"),
\* 0 ("geozero") or -1 ("geoneg") whatever the length of the geo section
GeoSizeField(db) ==
    CASE db.damaged = "geobig" -> LE32(MaxGeoSize + 1)
      [] db.damaged = "geozero" -> LE32(0)
      [] db.damaged = "geoneg" -> LE32(-1)
      [] OTHER -> LE32(Len(GeoPlain(db)))

\* damaged "padded": bytes trail the geo section, so DbSize is not what is
\* left of the file; "hdrsize": the HeaderBlockSize field is larger than what
\* is left of the file; "cut": the file ends inside the header block
TrailingBytes == <<0, 0, 0>>

CutAt(db) == Len(HyperPart) + SuperPartLength + HeaderBlockLength * HdrCount(db) - 10

FileOf(db) ==
    LET whole ==
            HyperPartOf(db) \o SuperBytes(db) \o HeaderBytes(db, 1) \o DataArea(Len(db.recs))
            \o IndexBytes(db, 1) \o LE32(db.colSel)
            \o (IF db.colSel = 0 THEN LE32(0)
                ELSE GeoSizeField(db) \o XorDecrypt(GeoPlain(db), KeyBytes))
    IN CASE db.damaged = "padded" -> whole \o TrailingBytes
         [] db.damaged = "cut" -> Slice(whole, 0, CutAt(db))
         [] OTHER -> whole

\* ranges over the keys 0..MaxIP: an ascending run t1 < t2 < ... of 2n
\* numbers, odd-ranked ones 2*start, even-ranked ones 2*end+1
RECURSIVE SortedSeq(_)
SortedSeq(S) ==
    IF S = {} THEN <<>>
    ELSE LET m == CHOOSE x \in S : \A y \in S : x <= y
         IN <<m>> \o SortedSeq(S \ {m})

RangeSets ==
    { T \in SUBSET (0..(2 * MaxIP + 1)) :
        /\ Cardinality(T) \in { 2 * n : n \in 1..MaxRecs }
        /\ LET s == SortedSeq(T)
           IN \A j \in 1..Len(s) : s[j] % 2 = (j + 1) % 2 }

RecsOf(T) ==
    LET s == SortedSeq(T)
    IN [i \in 1..(Len(s) \div 2) |-> << s[2 * i - 1] \div 2, s[2 * i] \div 2 >>]

\* the header holds the first and the last record, and any of those between
WellFormedDatabases ==
    UNION { { [dbType |-> t, recs |-> RecsOf(T), hdr |-> {1, Len(RecsOf(T))} \cup H,
               colSel |-> c, damaged |-> "no"] :
                t \in {0, 1}, c \in {0, 6},
                H \in SUBSET (2..(Len(RecsOf(T)) - 1)) } : T \in RangeSets }

\* files with one header pointer overwritten, with a short geo section, or
\* with a non-zero fourth byte in the index records' pointer fields
DamagedDatabases ==
    { [d EXCEPT !.damaged = x] :
        d \in { w \in WellFormedDatabases :
                    Len(w.recs) = 2 /\ w.dbType = 0 /\ w.colSel = 6 },
        x \in {"first", "last", "geoshort", "ptrhigh"} }

Databases == WellFormedDatabases \cup DamagedDatabases

(***************************************************************************)
(* The file handle: os.File.Read at the handle's position.  A read of a    *)
(* regular file returns the bytes up to the buffer's length or the file's  *)
(* end, and io.EOF when the buffer is not empty and no byte is left.       *)
(***************************************************************************)
FileRead(f, pos, n) ==
    LET got == Slice(f, Min(pos, Len(f)), Min(pos + n, Len(f)))
    IN [bytes |-> got, n |-> Len(got), eof |-> (n > 0 /\ Len(got) = 0)]

(***************************************************************************)
(* Open: InitDBSearcher and the loaders it calls.                          *)
(***************************************************************************)
parseSuperBlock(data) ==
    [DbType |-> data[1],
     DbSize |-> GetIntLong(data, 1),
     StartIndexPtr |-> GetIntLong(data, 5),
     HeaderBlockSize |-> GetIntLong(data, 9),
     EndIndexPtr |-> GetIntLong(data, 13)]

\* the scan of the header block in 20-byte strides, up to a zero pointer
RECURSIVE HeaderScan(_, _, _, _)
HeaderScan(b, headerBlockSize, i, acc) ==
    IF i >= headerBlockSize \/ i + 16 >= Len(b) \/ GetIntLong(b, i + 16) = 0
    THEN acc
    ELSE HeaderScan(b, headerBlockSize, i + HeaderBlockLength,
                    [HeaderLength |-> acc.HeaderLength + 1,
                     HeaderPtr |-> Append(acc.HeaderPtr, GetIntLong(b, i + 16)),
                     HeaderSip |-> Append(acc.HeaderSip, Slice(b, i, i + 16))])

\* initBtreeModeParam, lines 104-172: the two warnings are reported and the
\* header block is scanned as far as it was read
SizeMismatch == "database size mismatch"

IncompleteHeader == "incomplete HeaderBlock read"

initBtreeModeParam(f, offset, superBlock) ==
    LET realFileSize == Len(f) - offset
        w1 == IF superBlock.DbSize # realFileSize THEN {SizeMismatch} ELSE {}
        rd == FileRead(f, offset + SuperPartLength, superBlock.HeaderBlockSize)
        w2 == IF rd.n < superBlock.HeaderBlockSize THEN {IncompleteHeader} ELSE {}
    IN IF superBlock.HeaderBlockSize <= 0
       THEN [err |-> "invalid HeaderBlockSize", warn |-> w1]
       ELSE IF rd.eof THEN [err |-> "failed to read HeaderBlock", warn |-> w1]
       ELSE [err |-> "", warn |-> w1 \cup w2,
             param |-> HeaderScan(rd.bytes, superBlock.HeaderBlockSize, 0,
                                  [HeaderLength |-> 0, HeaderPtr |-> <<>>,
                                   HeaderSip |-> <<>>])]

GeoTooLarge == "geo data size too large"

GeoShort == "geo data read short"

\* a geo size that is used as declared
KeepGeoSize(geoSize) == [size |-> geoSize, warn |-> {}]

\* lines 245-248: the declared geo size limited to 100 MB
LimitGeoSize(geoSize) ==
    IF geoSize > MaxGeoSize THEN [size |-> MaxGeoSize, warn |-> {GeoTooLarge}]
    ELSE [size |-> geoSize, warn |-> {}]

\* the column selection, the geo size and the XOR-decrypted geo section;
\* pos is where the handle is left
loadGeoMapping(f, offset, endIndexPtr, ipBytesLength, keyBytes) ==
    IF endIndexPtr <= 0 THEN [err |-> "invalid end index pointer"]
    ELSE
    LET columnSelectionPtr == offset + endIndexPtr + (ipBytesLength * 2 + 5)
        cs == FileRead(f, columnSelectionPtr, 4)
        columnSelection == GetIntLong(cs.bytes, 0)
        geoDataStart == columnSelectionPtr + 4
        gs == FileRead(f, geoDataStart, 4)
        declared == GetIntLong(gs.bytes, 0)
        geoSize == LimitGeoSize(declared).size
        gd == FileRead(f, geoDataStart + 4, geoSize)
    IN IF cs.eof THEN [err |-> "failed to read column selection"]
       ELSE IF cs.n < 4 THEN [err |-> "incomplete column selection read"]
       ELSE IF columnSelection = 0
       THEN [err |-> "", warn |-> {}, ColumnSelection |-> 0, GeoMapData |-> <<>>,
             pos |-> columnSelectionPtr + 4]
       ELSE IF gs.eof THEN [err |-> "failed to read geo size"]
       ELSE IF gs.n < 4 THEN [err |-> "incomplete geo size read"]
       ELSE IF declared <= 0
       THEN [err |-> "", warn |-> {}, ColumnSelection |-> columnSelection,
             GeoMapData |-> <<>>, pos |-> geoDataStart + 4]
       ELSE IF gd.eof THEN [err |-> "failed to read geo data"]
       ELSE [err |-> "",
             warn |-> LimitGeoSize(declared).warn
                      \cup (IF gd.n < geoSize THEN {GeoShort} ELSE {}),
             ColumnSelection |-> columnSelection,
             GeoMapData |-> XorDecrypt(gd.bytes, keyBytes),
             pos |-> geoDataStart + 4 + gd.n]

\* v >> n on an int32 (arithmetic shift)
RECURSIVE ShiftRight(_, _)
ShiftRight(v, n) == IF n = 0 THEN v ELSE ShiftRight(v \div 2, n - 1)

\* DecryptedBlockOf with the padding size taken from bytes 8-12
DecryptedBlockOfLater(decryptedBytes) ==
    IF Len(decryptedBytes) >= 8
    THEN LET combinedValue == GetIntLong(decryptedBytes, 0)
         IN [err |-> "",
             ClientId |-> ShiftRight(combinedValue, ClientIdShift),
             ExpirationDate |-> combinedValue % (ExpirationDateMask + 1),
             RandomSize |-> IF Len(decryptedBytes) >= 12
                            THEN GetIntLong(decryptedBytes, 8) ELSE 0]
    ELSE [err |-> "decrypted data too small"]

\* lines 69-87 of DecryptHyperHeaderBlock: the decrypted bytes unpacked
DecryptedBlockOf(decryptedBytes) ==
    IF Len(decryptedBytes) >= 8
    THEN LET combinedValue == GetIntLong(decryptedBytes, 0)
         IN [err |-> "",
             ClientId |-> ShiftRight(combinedValue, ClientIdShift),
             ExpirationDate |-> combinedValue % (ExpirationDateMask + 1),
             RandomSize |-> IF Len(decryptedBytes) >= 12
                            THEN GetIntLong(decryptedBytes, 4) ELSE 0]
    ELSE [err |-> "decrypted data too small"]

\* DecryptHyperHeaderBlock(file, key), reading from the file's start
DecryptHyperHeaderBlock(f, key) ==
    LET hb == FileRead(f, 0, 8)
        sz == FileRead(f, 8, 4)
        size == GetIntLong(sz.bytes, 0)
        eb == FileRead(f, 12, size)
        dec == DecryptEncryptedBytes(eb.bytes, key)
        blk == DecryptedBlockOf(dec.bytes)
    IN IF hb.eof THEN [err |-> "failed to read HyperHeaderBlock"]
       ELSE IF hb.n < 8 THEN [err |-> "incomplete HyperHeaderBlock read"]
       ELSE IF sz.eof THEN [err |-> "failed to read encrypted block size"]
       ELSE IF sz.n < 4 THEN [err |-> "incomplete encrypted block size read"]
       ELSE IF size <= 0 \/ size > MaxEncryptedBlockSize
       THEN [err |-> "invalid encrypted block size"]
       ELSE IF eb.eof THEN [err |-> "failed to read encrypted block"]
       ELSE IF eb.n < size THEN [err |-> "incomplete encrypted block read"]
       ELSE IF dec.err # "" THEN [err |-> "failed to decrypt block"]
       ELSE IF blk.err # "" THEN [err |-> blk.err]
       ELSE [err |-> "", Version |-> GetIntLong(hb.bytes, 0),
             ClientId |-> GetIntLong(hb.bytes, 4), EncryptedBlockSize |-> size,
             DecryptedBlock |-> blk]

\* the searcher InitDBSearcher returns for file f opened with DBKey, or the
\* error it returns
\* (hyperHeader is bound by a set so that it is computed once per call)
InitDBSearcher(f, searchType) ==
  CHOOSE r \in {
    LET offset == 12 + hyperHeader.EncryptedBlockSize + hyperHeader.DecryptedBlock.RandomSize
        sb == FileRead(f, offset, SuperPartLength)
        superBlock == parseSuperBlock(sb.bytes)
        ipBytesLength == IF superBlock.DbType = 0 THEN 4 ELSE 16
        bt == initBtreeModeParam(f, offset, superBlock)
        geo == loadGeoMapping(f, offset, superBlock.EndIndexPtr, ipBytesLength, KeyBytes)
    IN IF hyperHeader.err # "" THEN [err |-> hyperHeader.err, warn |-> {}]
       ELSE IF offset < 0 THEN [err |-> "failed to seek past random data", warn |-> {}]
       ELSE IF sb.eof THEN [err |-> "failed to read SuperBlock", warn |-> {}]
       ELSE IF sb.n < SuperPartLength
       THEN [err |-> "incomplete SuperBlock read", warn |-> {}]
       ELSE IF bt.err # "" THEN [err |-> bt.err, warn |-> bt.warn]
       ELSE IF geo.err # "" THEN [err |-> geo.err, warn |-> bt.warn]
       ELSE [err |-> "",
             warn |-> bt.warn \cup geo.warn,
             pos |-> geo.pos,
             s |-> [IPType |-> IF superBlock.DbType = 0 THEN IPV4 ELSE IPV6,
                    SearchType |-> searchType,
                    DBBin |-> <<>>,
                    HyperHeader |-> hyperHeader,
                    FileOffset |-> offset,
                    IPBytesLength |-> ipBytesLength,
                    StartIndexPtr |-> superBlock.StartIndexPtr,
                    EndIndexPtr |-> superBlock.EndIndexPtr,
                    IndexLength |-> ipBytesLength * 2 + 5,
                    ColumnSelection |-> geo.ColumnSelection,
                    GeoMapData |-> geo.GeoMapData,
                    SuperBlock |-> superBlock,
                    BtreeModeParam |-> bt.param,
                    HeaderBlockSize |-> superBlock.HeaderBlockSize]]
    : hyperHeader \in {DecryptHyperHeaderBlock(f, DBKey)} } : TRUE

(***************************************************************************)
(* Query strings.  A query is a well-formed IPv4 string for key k, a       *)
(* well-formed IPv6 string for key k, or a malformed string.               *)
(***************************************************************************)
Queries ==
    { [fam |-> f, k |-> k] : f \in {"v4", "v6"}, k \in 0..MaxIP }
    \cup { [fam |-> "bad", k |-> 0] }

\* net.ParseIP: the 16-byte form (an IPv4 address as ::ffff:a.b.c.d), or nil
ParseIP(ip) ==
    CASE ip.fam = "v4" -> Zeros(10) \o <<255, 255>> \o IP4(ip.k)
      [] ip.fam = "v6" -> IP6(ip.k)
      [] OTHER -> <<>>

\* net.IP.To4: the 4-byte form of an IPv4 or IPv4-mapped address, or nil
To4(ip16) ==
    IF Len(ip16) = 16 /\ (\A i \in 1..10 : ip16[i] = 0)
       /\ ip16[11] = 255 /\ ip16[12] = 255
    THEN Slice(ip16, 12, 16)
    ELSE <<>>

\* ipToUint32: TRUE when it returns an error
ipToUint32Fails(ip) == ParseIP(ip) = <<>> \/ To4(ParseIP(ip)) = <<>>

\* copy(dst, src) into a zeroed dst of length n
CopyInto(n, src) == [i \in 1..n |-> IF i <= Len(src) THEN src[i] ELSE 0]

(***************************************************************************)
(* Results of Search: a region string, the string "IP not found", an      *)
(* error value, or a run-time panic (which ends the process).              *)
(***************************************************************************)
NoResult == [kind |-> "none", str |-> <<>>, msg |-> ""]

Str(s) == [kind |-> "str", str |-> s, msg |-> ""]

NotFound == [kind |-> "notfound", str |-> <<>>, msg |-> ""]

Err(m) == [kind |-> "err", str |-> <<>>, msg |-> m]

Panic(m) == [kind |-> "panic", str |-> <<>>, msg |-> m]

(***************************************************************************)
(* msgpack decoding (github.com/vmihailenco/msgpack/v5), for the codes     *)
(* the files of this model hold: nil, positive fixint, uint8/16/32,        *)
(* fixstr, str8, fixarray.  A decoded uint is kept as its bits 24..31 (hi) *)
(* and its low 24 bits (lo); `at` is a 0-based offset, `next` the offset   *)
(* after the value.                                                        *)
(***************************************************************************)
DecodeUint64(data, at) ==
    IF at >= Len(data) THEN [err |-> TRUE]
    ELSE LET c == data[at + 1]
         IN CASE c <= 127 -> [err |-> FALSE, hi |-> 0, lo |-> c, next |-> at + 1]
              [] c = 192 -> [err |-> FALSE, hi |-> 0, lo |-> 0, next |-> at + 1]
              [] c = 204 ->
                   IF at + 2 > Len(data) THEN [err |-> TRUE]
                   ELSE [err |-> FALSE, hi |-> 0, lo |-> data[at + 2], next |-> at + 2]
              [] c = 205 ->
                   IF at + 3 > Len(data) THEN [err |-> TRUE]
                   ELSE [err |-> FALSE, hi |-> 0,
                         lo |-> 256 * data[at + 2] + data[at + 3], next |-> at + 3]
              [] c = 206 ->
                   IF at + 5 > Len(data) THEN [err |-> TRUE]
                   ELSE [err |-> FALSE, hi |-> data[at + 2],
                         lo |-> 65536 * data[at + 3] + 256 * data[at + 4] + data[at + 5],
                         next |-> at + 5]
              [] OTHER -> [err |-> TRUE]

DecodeString(data, at) ==
    IF at >= Len(data) THEN [err |-> TRUE]
    ELSE LET c == data[at + 1]
             hdr == IF c = 217 THEN 2 ELSE 1
             n == CASE c = 192 -> 0
                    [] c >= 160 /\ c <= 191 -> c - 160
                    [] c = 217 /\ at + 2 <= Len(data) -> data[at + 2]
                    [] OTHER -> -1
         IN IF n < 0 \/ at + hdr + n > Len(data) THEN [err |-> TRUE]
            ELSE [err |-> FALSE, str |-> Slice(data, at + hdr, at + hdr + n),
                  next |-> at + hdr + n]

DecodeArrayLen(data, at) ==
    IF at >= Len(data) THEN [err |-> TRUE]
    ELSE LET c == data[at + 1]
         IN CASE c = 192 -> [err |-> FALSE, n |-> -1, next |-> at + 1]
              [] c >= 144 /\ c <= 159 -> [err |-> FALSE, n |-> c - 144, next |-> at + 1]
              [] OTHER -> [err |-> TRUE]

(***************************************************************************)
(* GetActualGeo: the geo record resolver.                                  *)
(***************************************************************************)
RECURSIVE Pow2(_)
Pow2(n) == IF n = 0 THEN 1 ELSE 2 * Pow2(n - 1)

\* a resolver that tests bit i of the mask for column i
columnSelectedBitI(columnSelection, i) == (columnSelection \div Pow2(i)) % 2 = 1

\* (columnSelection >> (i + 1) & 1) == 1
columnSelected(columnSelection, i) == (columnSelection \div Pow2(i + 1)) % 2 = 1

NullStr == <<110, 117, 108, 108>>

TabStr == <<9>>

\* "No geo data available"
NoGeoStr ==
    <<78, 111, 32, 103, 101, 111, 32, 100, 97, 116, 97, 32,
      97, 118, 97, 105, 108, 97, 98, 108, 101>>

\* the loop over the columns: sb is the string built so far
RECURSIVE geoColumns(_, _, _, _, _, _)
geoColumns(regionData, at, i, columnNumber, columnSelection, sb) ==
    IF i >= columnNumber THEN [err |-> FALSE, str |-> sb]
    ELSE LET v == DecodeString(regionData, at)
         IN IF v.err THEN [err |-> TRUE]
            ELSE geoColumns(regionData, v.next, i + 1, columnNumber, columnSelection,
                            IF columnSelected(columnSelection, i)
                            THEN sb \o (IF v.str = <<>> THEN NullStr ELSE v.str) \o TabStr
                            ELSE sb)

GetActualGeo(geoMapData, columnSelection, geoPtr, geoLen, data) ==
    IF Len(geoMapData) = 0 THEN Str(NoGeoStr)
    ELSE IF geoPtr + geoLen > Len(geoMapData) THEN Err("Geo pointer out of bounds")
    ELSE
    LET mix == DecodeUint64(data, 0)
        other == DecodeString(data, mix.next)
        dataLen == mix.hi
        dataPtr == mix.lo
        regionData == Slice(geoMapData, dataPtr, dataPtr + dataLen)
        arr == DecodeArrayLen(regionData, 0)
        cols == geoColumns(regionData, arr.next, 0, arr.n, columnSelection, <<>>)
    IN IF mix.err THEN Err("failed to decode geoPosMixSize")
       ELSE IF other.err THEN Err("failed to decode otherData")
       ELSE IF mix.hi = 0 /\ mix.lo = 0 THEN Str(other.str)
       ELSE IF dataPtr + dataLen > Len(geoMapData) THEN Str(other.str)
       ELSE IF arr.err THEN Err("failed to decode column array")
       ELSE IF cols.err THEN Err("failed to decode column")
       ELSE Str(cols.str \o other.str)

(***************************************************************************)
(* TreeSearch.  The header search and the index-block search are pure;     *)
(* the steps that touch the searcher's shared state (DBBin, the file       *)
(* handle) are the steps of the machine below.                             *)
(***************************************************************************)
\* the binary search over the header entries
RECURSIVE headerLoop(_, _, _, _, _)
headerLoop(param, ipBytes, n, l, h) ==
    IF l > h THEN [hit |-> FALSE, l |-> l, h |-> h, sptr |-> 0, eptr |-> 0]
    ELSE LET m == (l + h) \div 2
             cmp == compareBytes(ipBytes, param.HeaderSip[m + 1], n)
         IN IF cmp < 0 THEN headerLoop(param, ipBytes, n, l, m - 1)
            ELSE IF cmp > 0 THEN headerLoop(param, ipBytes, n, m + 1, h)
            ELSE [hit |-> TRUE, l |-> l, h |-> h,
                  sptr |-> IF m > 0 THEN param.HeaderPtr[m] ELSE param.HeaderPtr[m + 1],
                  eptr |-> param.HeaderPtr[m + 1]]

\* headerRange with the block of an exact match starting at the matched
\* entry's own pointer
headerRangeFromMatch(param, ipBytes, n) ==
    LET r == headerLoop(param, ipBytes, n, 0, param.HeaderLength - 1)
    IN IF r.hit THEN [panic |-> FALSE, sptr |-> r.eptr, eptr |-> r.eptr]
       ELSE IF r.l < param.HeaderLength
       THEN IF r.l - 1 < 0 THEN [panic |-> TRUE, sptr |-> 0, eptr |-> 0]
            ELSE [panic |-> FALSE, sptr |-> param.HeaderPtr[r.l],
                  eptr |-> param.HeaderPtr[r.l + 1]]
       ELSE IF param.HeaderLength = 0 THEN [panic |-> TRUE, sptr |-> 0, eptr |-> 0]
       ELSE [panic |-> FALSE, sptr |-> param.HeaderPtr[param.HeaderLength],
             eptr |-> param.HeaderPtr[param.HeaderLength] + (n * 2 + 5)]

\* sptr and eptr of the candidate block; panic when the code indexes
\* HeaderPtr outside [0, HeaderLength-1]
headerRange(param, ipBytes, n) ==
    LET r == headerLoop(param, ipBytes, n, 0, param.HeaderLength - 1)
    IN IF r.hit THEN [panic |-> FALSE, sptr |-> r.sptr, eptr |-> r.eptr]
       ELSE IF r.l < param.HeaderLength
       THEN IF r.l - 1 < 0 THEN [panic |-> TRUE, sptr |-> 0, eptr |-> 0]
            ELSE [panic |-> FALSE, sptr |-> param.HeaderPtr[r.l],
                  eptr |-> param.HeaderPtr[r.l + 1]]
       ELSE IF r.h >= 0 /\ r.h + 1 < param.HeaderLength
       THEN [panic |-> FALSE, sptr |-> param.HeaderPtr[r.h + 1],
             eptr |-> param.HeaderPtr[r.h + 2]]
       ELSE IF param.HeaderLength = 0 THEN [panic |-> TRUE, sptr |-> 0, eptr |-> 0]
       ELSE [panic |-> FALSE, sptr |-> param.HeaderPtr[param.HeaderLength],
             eptr |-> param.HeaderPtr[param.HeaderLength] + (n * 2 + 5)]

\* a uint32 of 2^31 or more, which is above every length of the model
HugePtr == 127 * 16777216 + 16777215

\* the little-endian uint32 at dataPos
Uint32At(b, dataPos) ==
    IF b[dataPos + 4] >= 128 THEN HugePtr
    ELSE b[dataPos + 1] + 256 * b[dataPos + 2] + 65536 * b[dataPos + 3]
         + 16777216 * b[dataPos + 4]

\* the binary search over the records of the index block
RECURSIVE blockLoop(_, _, _, _, _, _)
blockLoop(indexBuffer, ipBytes, n, blen, l, h) ==
    IF l > h THEN [found |-> FALSE, dataPtr |-> 0, dataLen |-> 0]
    ELSE
    LET m == (l + h) \div 2
        offset == m * blen
        startIP == Slice(indexBuffer, offset, offset + n)
        endIP == Slice(indexBuffer, offset + n, offset + n * 2)
        cmpStart == compareBytes(ipBytes, startIP, n)
        cmpEnd == compareBytes(ipBytes, endIP, n)
        dataPos == offset + n * 2
    IN IF offset + n * 2 + 5 > Len(indexBuffer)
       THEN [found |-> FALSE, dataPtr |-> 0, dataLen |-> 0]
       ELSE IF cmpStart >= 0 /\ cmpEnd <= 0
       THEN [found |-> TRUE, dataPtr |-> Uint32At(indexBuffer, dataPos),
             dataLen |-> indexBuffer[dataPos + 5]]
       ELSE IF cmpStart < 0 THEN blockLoop(indexBuffer, ipBytes, n, blen, l, m - 1)
       ELSE blockLoop(indexBuffer, ipBytes, n, blen, m + 1, h)

\* the state of one TreeSearch call
Idle ==
    [t |-> 0, pc |-> "idle", ip |-> [fam |-> "bad", k |-> 0], ipBytes |-> <<>>,
     sptr |-> 0, eptr |-> 0, found |-> FALSE, dataPtr |-> 0, dataLen |-> 0,
     fileSize |-> 0, bytesRead |-> 0, foreign |-> FALSE,
     result |-> NoResult]

Return(L, res) == [L EXCEPT !.pc = "done", !.result = res]

\* lines 464-507: the header range, then on to the index block
headerStage(sr, L) ==
    LET r == headerRange(sr.BtreeModeParam, L.ipBytes, sr.IPBytesLength)
    IN IF r.panic THEN Return(L, Panic("index out of range"))
       ELSE IF r.sptr = 0 THEN Return(L, NotFound)
       ELSE [L EXCEPT !.sptr = r.sptr, !.eptr = r.eptr,
                      !.pc = IF sr.SearchType = MEMORY THEN "mem_index" ELSE "bt_seek1"]

\* the record search followed by the data read, with no check of the
\* pointer against GeoMapData
indexStageUnchecked(sr, L, indexBuffer, next) ==
    LET blockLen == L.eptr - L.sptr
        blen == sr.IndexLength
        r == blockLoop(indexBuffer, L.ipBytes, sr.IPBytesLength, blen, 0, blockLen \div blen)
        F == [L EXCEPT !.found = r.found, !.dataPtr = r.dataPtr, !.dataLen = r.dataLen]
    IN IF ~r.found THEN Return(L, NotFound)
       ELSE IF r.dataPtr = 0 \/ r.dataLen = 0
       THEN Return(F, Err("invalid data pointer or length"))
       ELSE [F EXCEPT !.pc = next]

\* lines 539-606: the record search in the index buffer and the checks of
\* the pointer it finds
indexStage(sr, L, indexBuffer, next) ==
    LET blockLen == L.eptr - L.sptr
        blen == sr.IndexLength
        r == blockLoop(indexBuffer, L.ipBytes, sr.IPBytesLength, blen, 0, blockLen \div blen)
        F == [L EXCEPT !.found = r.found, !.dataPtr = r.dataPtr, !.dataLen = r.dataLen]
    IN IF ~r.found THEN Return(L, NotFound)
       ELSE IF r.dataPtr = 0 \/ r.dataLen = 0
       THEN Return(F, Err("invalid data pointer or length"))
       ELSE IF r.dataPtr >= Len(sr.GeoMapData)
       THEN Return(F, Err("geo pointer out of bounds"))
       ELSE IF r.dataPtr + r.dataLen > Len(sr.GeoMapData)
       THEN Return(F, Err("geo data exceeds buffer bounds"))
       ELSE [F EXCEPT !.pc = next]

\* lines 630-636
geoStage(sr, L, data) ==
    LET g == GetActualGeo(sr.GeoMapData, sr.ColumnSelection, L.dataPtr, L.dataLen, data)
    IN IF g.kind = "err" THEN Return(L, Err("failed to get geo data")) ELSE Return(L, g)

\* a seek relative to the handle's current position (io.SeekCurrent)
SeekCurrent(S, t, offset) == [S EXCEPT !.pos = S.pos + offset, !.mover = t]

\* File.Seek(offset, io.SeekStart) by call t
SeekStart(S, t, offset) == [S EXCEPT !.pos = offset, !.mover = t]

\* lines 428-462: the query's bytes, and whether the lazy load is needed
startStage(sr, L, S) ==
    IF ipToUint32Fails(L.ip) THEN Return(L, Err("invalid IP address format"))
    ELSE LET ipAddr == IF sr.IPType = IPV4 THEN To4(ParseIP(L.ip)) ELSE ParseIP(L.ip)
             L1 == [L EXCEPT !.ipBytes = CopyInto(sr.IPBytesLength, ipAddr)]
         IN IF ipAddr = <<>> THEN Return(L, Err("invalid IP address"))
            ELSE IF sr.SearchType = MEMORY /\ Len(S.DBBin) = 0
            THEN [L1 EXCEPT !.pc = "load_stat"]
            ELSE headerStage(sr, L1)

\* One step of a TreeSearch call in state L on file f, with the searcher's
\* fields sr and the shared state S = [DBBin, pos, open, readErr, mover,
\* loads]: the in-memory buffer, the handle's position, whether the handle
\* is open, whether the device fails every read with an I/O error, the
\* call whose seek or read last moved the position, and the number of reads
\* loadDBIntoMemory has made.  L.foreign records that the call read at a
\* position another call had moved.
Step(f, sr, L, S) ==
    CASE L.pc = "start" -> [l |-> startStage(sr, L, S), s |-> S]
      \* loadDBIntoMemory, lines 668-700
      [] L.pc = "load_stat" ->
           IF ~S.open
           THEN [l |-> Return(L, Err("failed to load database into memory")), s |-> S]
           ELSE [l |-> [L EXCEPT !.fileSize = Len(f), !.pc = "load_seek"], s |-> S]
      [] L.pc = "load_seek" ->
           IF ~S.open
           THEN [l |-> Return(L, Err("failed to load database into memory")), s |-> S]
           ELSE [l |-> [L EXCEPT !.pc = "load_alloc"],
                 s |-> SeekStart(S, L.t, sr.FileOffset)]
      [] L.pc = "load_alloc" ->
           [l |-> [L EXCEPT !.pc = "load_read"],
            s |-> [S EXCEPT !.DBBin = Zeros(L.fileSize - sr.FileOffset)]]
      [] L.pc = "load_read" ->
           LET rd == FileRead(f, S.pos, Len(S.DBBin))
           IN IF ~S.open \/ S.readErr
              THEN [l |-> Return(L, Err("failed to load database into memory")), s |-> S]
              ELSE [l |-> [L EXCEPT !.bytesRead = rd.n, !.pc = "load_trunc"],
                    s |-> [S EXCEPT !.DBBin = rd.bytes \o Slice(S.DBBin, rd.n, Len(S.DBBin)),
                                    !.pos = S.pos + rd.n,
                                    !.mover = IF rd.n > 0 THEN L.t ELSE S.mover,
                                    !.loads = S.loads + 1]]
      [] L.pc = "load_trunc" ->
           [l |-> headerStage(sr, L),
            s |-> IF L.bytesRead < L.fileSize - sr.FileOffset
                  THEN [S EXCEPT !.DBBin = Slice(S.DBBin, 0, Min(L.bytesRead, Len(S.DBBin)))]
                  ELSE S]
      \* memory mode, lines 516-521 and 612-617
      [] L.pc = "mem_index" ->
           LET blockLen == L.eptr - L.sptr
           IN [l |-> IF L.sptr >= Len(S.DBBin)
                     THEN Return(L, Err("index pointer out of bounds"))
                     ELSE IF blockLen < 0 \/ L.sptr + blockLen > Len(S.DBBin)
                     THEN Return(L, Panic("slice bounds out of range"))
                     ELSE indexStage(sr, L, Slice(S.DBBin, L.sptr, L.sptr + blockLen),
                                     "mem_data"),
               s |-> S]
      [] L.pc = "mem_data" ->
           [l |-> IF L.dataPtr >= Len(S.DBBin)
                  THEN Return(L, Err("data pointer out of bounds"))
                  ELSE IF L.dataPtr + L.dataLen > Len(S.DBBin)
                  THEN Return(L, Panic("slice bounds out of range"))
                  ELSE geoStage(sr, L, Slice(S.DBBin, L.dataPtr, L.dataPtr + L.dataLen)),
            s |-> S]
      \* file mode, lines 523-536 and 619-627
      [] L.pc = "bt_seek1" ->
           IF ~S.open
           THEN [l |-> Return(L, Err("failed to seek to index position")), s |-> S]
           ELSE [l |-> [L EXCEPT !.pc = "bt_read1"],
                 s |-> SeekStart(S, L.t, L.sptr + sr.FileOffset)]
      [] L.pc = "bt_read1" ->
           LET blockLen == L.eptr - L.sptr
               rd == FileRead(f, S.pos, blockLen)
               L1 == [L EXCEPT !.foreign = L.foreign \/ (S.mover # L.t)]
           IN IF blockLen < 0
              THEN [l |-> Return(L1, Panic("makeslice: len out of range")), s |-> S]
              ELSE IF ~S.open \/ S.readErr \/ rd.eof
              THEN [l |-> Return(L1, Err("failed to read index buffer")), s |-> S]
              ELSE [l |-> IF rd.n < blockLen
                          THEN Return(L1, Err("incomplete index buffer read"))
                          ELSE indexStage(sr, L1, rd.bytes, "bt_seek2"),
                    s |-> [S EXCEPT !.pos = S.pos + rd.n,
                                    !.mover = IF rd.n > 0 THEN L.t ELSE S.mover]]
      [] L.pc = "bt_seek2" ->
           IF ~S.open
           THEN [l |-> Return(L, Err("failed to seek to data position")), s |-> S]
           ELSE [l |-> [L EXCEPT !.pc = "bt_read2"],
                 s |-> SeekStart(S, L.t, L.dataPtr + sr.FileOffset)]
      [] L.pc = "bt_read2" ->
           LET rd == FileRead(f, S.pos, L.dataLen)
               L1 == [L EXCEPT !.foreign = L.foreign \/ (S.mover # L.t)]
           IN IF ~S.open \/ S.readErr \/ rd.eof
              THEN [l |-> Return(L1, Err("failed to read data")), s |-> S]
              ELSE [l |-> geoStage(sr, L1, CopyInto(L.dataLen, rd.bytes)),
                    s |-> [S EXCEPT !.pos = S.pos + rd.n,
                                    !.mover = IF rd.n > 0 THEN L.t ELSE S.mover]]

\* a call run to its end with no other call interleaved
RECURSIVE Run(_, _, _, _)
Run(f, sr, L, S) ==
    IF L.pc = "done" THEN [l |-> L, s |-> S]
    ELSE LET r == Step(f, sr, L, S) IN Run(f, sr, r.l, r.s)

\* Search(ip, dbSearcher) begun: TreeSearch in the searcher's mode
StartCall(t, ip) == [Idle EXCEPT !.t = t, !.pc = "start", !.ip = ip]

(***************************************************************************)
(* State.                                                                  *)
(*   db        the description the file was built from (not program state) *)
(*   file      the database file's bytes                                   *)
(*   searcher  the DBSearcher's fields                                     *)
(*   handle    the open file: whether it is open, its position, the call   *)
(*             that last moved the position (0: InitDBSearcher), and       *)
(*             whether the device fails every read (SpecRetry)             *)
(*   loads     the number of reads made by loadDBIntoMemory                *)
(*   th        the TreeSearch calls of the calling goroutines              *)
(*   calls     the number of calls each goroutine has begun                *)
(*   geoIn, geoOut   an input of GetActualGeo and its result (SpecGeo)     *)
(*   closes    the number of CloseDBSearcher calls made with a nil         *)
(*             searcher and with the searcher (SpecLife)                   *)
(***************************************************************************)
VARIABLES db, file, searcher, handle, loads, th, calls, geoIn, geoOut, closes,
          opened, arg, ret

vars == <<db, file, searcher, handle, loads, th, calls, geoIn, geoOut, closes,
          opened, arg, ret>>

\* the calling goroutines
NThreads == 2

Threads == 1..NThreads

Shared == [DBBin |-> searcher.DBBin, pos |-> handle.pos, open |-> handle.open,
           readErr |-> handle.readErr, mover |-> handle.mover, loads |-> loads]

SetShared(S) ==
    /\ searcher' = [searcher EXCEPT !.DBBin = S.DBBin]
    /\ handle' = [open |-> S.open, pos |-> S.pos, mover |-> S.mover,
                  readErr |-> S.readErr]
    /\ loads' = S.loads

Crashed == \E t \in Threads : th[t].result.kind = "panic"

NoGeoIn == [kind |-> "none"]

NoCloses == [nil |-> 0, searcher |-> 0]

\* arg, ret: the input and the result of a function called on its own
NoArg == [kind |-> "none"]

\* opened: what InitDBSearcher returned and the warnings it reported
NoOpen == [err |-> "not called", warn |-> {}]

OpenResult(o) == [err |-> o.err, warn |-> o.warn]

\* the state after a successful InitDBSearcher(file, mode)
InitWith(DBs) ==
    /\ db \in DBs
    /\ file = FileOf(db)
    /\ \E m \in {MEMORY, BTREE} :
          LET o == InitDBSearcher(file, m)
          IN /\ o.err = ""
             /\ searcher = o.s
             /\ handle = [open |-> TRUE, pos |-> o.pos, mover |-> 0, readErr |-> FALSE]
    /\ loads = 0
    /\ th = [t \in Threads |-> [Idle EXCEPT !.t = t]]
    /\ calls = [t \in Threads |-> 0]
    /\ geoIn = NoGeoIn
    /\ geoOut = NoResult
    /\ closes = NoCloses
    /\ opened = OpenResult(InitDBSearcher(file, searcher.SearchType))
    /\ arg = NoArg
    /\ ret = NoArg

(***************************************************************************)
(* Spec: one caller; a Search is one action, from its call to its return.  *)
(***************************************************************************)
Init == InitWith(Databases)

Search(ip) ==
    /\ ~Crashed
    /\ LET r == Run(file, searcher, StartCall(1, ip), Shared)
       IN /\ th' = [th EXCEPT ![1] = r.l]
          /\ SetShared(r.s)
    /\ UNCHANGED <<db, file, calls, geoIn, geoOut, closes, opened, arg, ret>>

Next == \E ip \in Queries : Search(ip)

Spec == Init /\ [][Next]_vars

(***************************************************************************)
(* SpecConc: NThreads goroutines call Search on one searcher, once each;   *)
(* the calls interleave at the steps that touch DBBin and the file handle. *)
(***************************************************************************)
\* the keys the concurrent callers query: a header entry's start IP, an IP
\* of the first block, an IP of the last block, an IP after the last range
ConcKeys == {0, 1, 3, 4}

ConcDatabases ==
    { [dbType |-> 0, recs |-> << <<0, 1>>, <<2, 3>> >>, hdr |-> {1, 2},
       colSel |-> 6, damaged |-> "no"] }

ConcQueries == { [fam |-> "v4", k |-> k] : k \in ConcKeys }

InitConc == InitWith(ConcDatabases)

Call(t, ip) ==
    /\ ~Crashed
    /\ th[t].pc \in {"idle", "done"}
    /\ calls[t] = 0
    /\ th' = [th EXCEPT ![t] = StartCall(t, ip)]
    /\ calls' = [calls EXCEPT ![t] = @ + 1]
    /\ UNCHANGED <<db, file, searcher, handle, loads, geoIn, geoOut, closes,
                   opened, arg, ret>>

StepThread(t) ==
    /\ ~Crashed
    /\ th[t].pc \notin {"idle", "done"}
    /\ LET r == Step(file, searcher, th[t], Shared)
       IN /\ th' = [th EXCEPT ![t] = r.l]
          /\ SetShared(r.s)
    /\ UNCHANGED <<db, file, calls, geoIn, geoOut, closes, opened, arg, ret>>

NextConc ==
    \/ \E t \in Threads, ip \in ConcQueries : Call(t, ip)
    \/ \E t \in Threads : StepThread(t)

SpecConc == InitConc /\ [][NextConc]_vars

(***************************************************************************)
(* SpecGeo: GetActualGeo as a pure function.  Init draws a data record     *)
(* (its secondary pointer and its fallback string), a column list stored   *)
(* in the geo mapping buffer and a column mask; Resolve applies the        *)
(* resolver.                                                               *)
(***************************************************************************)
\* masks are 0..MaxMask
MaxMask == 15

\* column lists have up to MaxCols columns
MaxCols == 3

CN == <<67, 78>>

Beijing == <<66, 101, 105, 106, 105, 110, 103>>

ColumnStrings == {<<>>, CN, Beijing}

ColumnLists == UNION { [1..n -> ColumnStrings] : n \in 0..MaxCols }

\* msgpack fixstr
EncodeString(str) == <<160 + Len(str)>> \o str

RECURSIVE EncodeColumns(_, _)
EncodeColumns(cols, i) ==
    IF i > Len(cols) THEN <<>> ELSE EncodeString(cols[i]) \o EncodeColumns(cols, i + 1)

\* msgpack fixarray of fixstr
EncodeArray(cols) == <<144 + Len(cols)>> \o EncodeColumns(cols, 1)

\* the fallback strings of the data records; the last holds a control byte
\* and a byte above 126
Fallbacks == {<<>>, <<65>>, <<66, 7, 200>>}

\* kind "columns": the record's secondary pointer names the column list;
\* "zero": the record's geoPosMixSize is 0; "beyond": the secondary region
\* ends after the buffer's end.  buffer "filled": GeoMapData holds the
\* column list; "empty": GeoMapData is empty (column mask 0 in the file, or
\* a geo section of size 0)
GeoInputs ==
    [kind : {"columns", "zero", "beyond"}, buffer : {"filled"}, mask : 0..MaxMask,
     cols : ColumnLists, at : {0, 2}, fallback : Fallbacks]
    \cup
    [kind : {"zero", "beyond"}, buffer : {"empty"}, mask : 0..MaxMask,
     cols : ColumnLists, at : {0, 2}, fallback : Fallbacks]

GeoMapOf(in) ==
    IF in.buffer = "empty" THEN <<>>
    ELSE Zeros(in.at) \o EncodeArray(in.cols) \o <<0>>

GeoDataOf(in) ==
    (CASE in.kind = "columns" -> <<206, Len(EncodeArray(in.cols)), 0, 0, in.at>>
       [] in.kind = "zero" -> <<0>>
       [] in.kind = "beyond" -> <<206, Len(EncodeArray(in.cols)), 0, 0, in.at + 2>>)
    \o EncodeString(in.fallback)

InitGeo ==
    /\ geoIn \in GeoInputs
    /\ geoOut = NoResult
    /\ db = [dbType |-> 0, recs |-> <<>>, hdr |-> {}, colSel |-> 0, damaged |-> "no"]
    /\ file = <<>>
    /\ searcher = [SearchType |-> "none", DBBin |-> <<>>]
    /\ handle = [open |-> FALSE, pos |-> 0, mover |-> 0, readErr |-> FALSE]
    /\ loads = 0
    /\ th = [t \in Threads |-> [Idle EXCEPT !.t = t]]
    /\ calls = [t \in Threads |-> 0]
    /\ closes = NoCloses
    /\ opened = NoOpen
    /\ arg = NoArg
    /\ ret = NoArg

Resolve ==
    /\ geoOut = NoResult
    /\ geoOut' = GetActualGeo(GeoMapOf(geoIn), geoIn.mask, 0, 0, GeoDataOf(geoIn))
    /\ UNCHANGED <<db, file, searcher, handle, loads, th, calls, geoIn, closes,
                   opened, arg, ret>>

NextGeo == Resolve

SpecGeo == InitGeo /\ [][NextGeo]_vars

(***************************************************************************)
(* SpecLife: one caller searches and closes.  CloseDBSearcher is called    *)
(* with a nil searcher or with the searcher, up to MaxCloses times.        *)
(***************************************************************************)
\* the number of CloseDBSearcher calls
MaxCloses == 2

\* a Close that leaves the file open
KeepOpen(h) == h

\* os.File.Close: the handle is released; on a closed file it returns an
\* error (which CloseDBSearcher drops) and changes nothing
FileClose(h) == [h EXCEPT !.open = FALSE]

LifeDatabases ==
    { [dbType |-> t, recs |-> << <<0, 1>>, <<2, 3>> >>, hdr |-> {1, 2},
       colSel |-> 6, damaged |-> "no"] : t \in {0, 1} }

\* the queries of ConcQueries, IPv6 strings and the malformed string
LifeQueries ==
    ConcQueries \cup { [fam |-> "v6", k |-> k] : k \in {1, 4} }
                \cup { [fam |-> "bad", k |-> 0] }

InitLife == InitWith(LifeDatabases)

\* CloseDBSearcher(dbSearcher), lines 751-758; target "nil" is a nil
\* searcher.  DBSearcher.File is never nil after a successful open.
CloseDBSearcher(target) ==
    /\ closes.nil + closes.searcher < MaxCloses
    /\ closes' = [closes EXCEPT ![target] = @ + 1]
    /\ handle' = IF target = "nil" THEN handle ELSE FileClose(handle)
    /\ UNCHANGED <<db, file, searcher, loads, th, calls, geoIn, geoOut, opened, arg, ret>>

SearchLife(ip) == ip \in LifeQueries /\ Search(ip)

NextLife ==
    \/ \E ip \in LifeQueries : SearchLife(ip)
    \/ \E target \in {"nil", "searcher"} : CloseDBSearcher(target)

SpecLife == InitLife /\ [][NextLife]_vars

(***************************************************************************)
(* SpecRetry: one caller repeats searches on a searcher whose surroundings *)
(* do not change: the handle is open, or was closed after the open, and    *)
(* the device is sound, or has begun to fail every read with an I/O error  *)
(* after the open.                                                         *)
(***************************************************************************)
InitRetry ==
    /\ db \in LifeDatabases
    /\ file = FileOf(db)
    /\ \E m \in {MEMORY, BTREE}, isOpen \in BOOLEAN, fails \in BOOLEAN :
          LET o == InitDBSearcher(file, m)
          IN /\ o.err = ""
             /\ searcher = o.s
             /\ handle = [open |-> isOpen, pos |-> o.pos, mover |-> 0,
                          readErr |-> fails]
    /\ loads = 0
    /\ th = [t \in Threads |-> [Idle EXCEPT !.t = t]]
    /\ calls = [t \in Threads |-> 0]
    /\ geoIn = NoGeoIn
    /\ geoOut = NoResult
    /\ closes = NoCloses
    /\ opened = OpenResult(InitDBSearcher(file, searcher.SearchType))
    /\ arg = NoArg
    /\ ret = NoArg

SearchRetry(ip) == ip \in LifeQueries /\ Search(ip)

NextRetry == \E ip \in LifeQueries : SearchRetry(ip)

SpecRetry == InitRetry /\ [][NextRetry]_vars

(***************************************************************************)
(* SpecOpen: InitDBSearcher is called on a regular file or on an irregular *)
(* one, and the searcher it returns, if any, is searched by one caller.    *)
(***************************************************************************)
OpenDatabases ==
    { [d EXCEPT !.hdr = h, !.damaged = x] :
        d \in LifeDatabases, h \in {{1}, {1, 2}},
        x \in {"no", "padded", "hdrsize", "cut", "size0", "sizeneg", "sizemax",
                "sizebig", "twoblocks", "geobig", "geozero", "geoneg"} }

InitOpen ==
    /\ db \in OpenDatabases
    /\ file = FileOf(db)
    /\ \E m \in {MEMORY, BTREE} : searcher = [SearchType |-> m, DBBin |-> <<>>]
    /\ handle = [open |-> FALSE, pos |-> 0, mover |-> 0, readErr |-> FALSE]
    /\ loads = 0
    /\ th = [t \in Threads |-> [Idle EXCEPT !.t = t]]
    /\ calls = [t \in Threads |-> 0]
    /\ geoIn = NoGeoIn
    /\ geoOut = NoResult
    /\ closes = NoCloses
    /\ opened = NoOpen
    /\ arg = NoArg
    /\ ret = NoArg

\* InitDBSearcher(dbPath, key, searchType), lines 292-392, on a file whose
\* Stat() succeeds: every failure closes the file and returns no searcher
Open ==
    /\ opened = NoOpen
    /\ LET o == InitDBSearcher(file, searcher.SearchType)
       IN /\ opened' = OpenResult(o)
          /\ searcher' = IF o.err = "" THEN o.s ELSE searcher
          /\ handle' = IF o.err = "" THEN [handle EXCEPT !.open = TRUE, !.pos = o.pos]
                        ELSE handle
    /\ UNCHANGED <<db, file, loads, th, calls, geoIn, geoOut, closes, arg, ret>>

SearchOpened(ip) == opened.err = "" /\ ip \in LifeQueries /\ Search(ip)

NextOpen ==
    \/ Open
    \/ \E ip \in LifeQueries : SearchOpened(ip)

SpecOpen == InitOpen /\ [][NextOpen]_vars

(***************************************************************************)
(* Opening where the operating system may refuse file.Stat() on the file   *)
(* os.Open has just opened (lines 294-303).  That return does not call     *)
(* file.Close(); every later failure return does (lines 317-388).          *)
(***************************************************************************)
OpenEnv(statErr) ==
    /\ opened = NoOpen
    /\ LET o == IF statErr THEN [err |-> "failed to get file info", warn |-> {}]
                ELSE InitDBSearcher(file, searcher.SearchType)
       IN /\ opened' = OpenResult(o)
          /\ searcher' = IF o.err = "" THEN o.s ELSE searcher
          /\ handle' = [handle EXCEPT !.open = (o.err = "" \/ statErr),
                                      !.pos = IF o.err = "" THEN o.pos ELSE @]
    /\ UNCHANGED <<db, file, loads, th, calls, geoIn, geoOut, closes, arg, ret>>

NextEnv ==
    \/ \E statErr \in BOOLEAN : OpenEnv(statErr)
    \/ \E ip \in LifeQueries : SearchOpened(ip)

SpecEnv == InitOpen /\ [][NextEnv]_vars

(***************************************************************************)
(* Functions called on their own: arg is the input, ret the result; the    *)
(* searcher's variables are parked.                                        *)
(***************************************************************************)
Parked ==
    /\ db = [dbType |-> 0, recs |-> <<>>, hdr |-> {}, colSel |-> 0, damaged |-> "no"]
    /\ file = <<>>
    /\ searcher = [SearchType |-> "none", DBBin |-> <<>>]
    /\ handle = [open |-> FALSE, pos |-> 0, mover |-> 0, readErr |-> FALSE]
    /\ loads = 0
    /\ th = [t \in Threads |-> [Idle EXCEPT !.t = t]]
    /\ calls = [t \in Threads |-> 0]
    /\ geoIn = NoGeoIn
    /\ geoOut = NoResult
    /\ closes = NoCloses
    /\ opened = NoOpen

Returned(v) ==
    /\ ret = NoArg
    /\ ret' = v
    /\ UNCHANGED <<db, file, searcher, handle, loads, th, calls, geoIn, geoOut,
                   closes, opened, arg>>

(***************************************************************************)
(* SpecAES: the decryption of the hyper header's encrypted block.          *)
(***************************************************************************)
\* keys: n is the number of bytes the text encodes, -1 when it is not base64
AESKeys ==
    { [n |-> n, text |-> KeyText(n)] : n \in {0, 8, 15, 16, 17, 24, 31, 32, 33} }
    \cup { [n |-> -1, text |-> [KeyText(16) EXCEPT ![5] = NotBase64]],
           [n |-> -1, text |-> Slice(KeyText(24), 0, 31)],
           [n |-> -1, text |-> [KeyText(32) EXCEPT ![7] = Pad]] }

Ciphertexts ==
    { [i \in 1..n |-> (i * f + 5) % 256] : n \in {0, 1, 15, 16, 17, 32, 33, 48}, f \in {3, 11} }

InitAES ==
    /\ Parked
    /\ arg \in [kind : {"aes"}, key : AESKeys, data : Ciphertexts]
    /\ ret = NoArg

Decrypted == Returned(DecryptEncryptedBytes(arg.data, arg.key.text))

NextAES == Decrypted

SpecAES == InitAES /\ [][NextAES]_vars

(***************************************************************************)
(* SpecSecret: the unpacking of a decrypted secret whose first word is     *)
(* arg.word (4 bytes, little-endian).                                      *)
(***************************************************************************)
InitSecret ==
    /\ Parked
    /\ arg \in [kind : {"secret"}, word : [1..4 -> {0, 1, 15, 16, 127, 128, 255}]]
    /\ ret = NoArg

Unpacked == Returned(DecryptedBlockOf(arg.word \o LE32(RandomSize) \o Zeros(8)))

NextSecret == Unpacked

SpecSecret == InitSecret /\ [][NextSecret]_vars

(***************************************************************************)
(* SpecXor: the XOR decryption, applied to a buffer and again to its own   *)
(* output.  fn "db" is Decrypt of db_searcher.go, whose key is a base64    *)
(* string; fn "utils" is Decrypt of byte_utils.go, whose key is bytes.     *)
(***************************************************************************)
MaxApplications == 2

\* Decrypt(encryptedBytes, key string), db_searcher.go: nil when the key is
\* not base64
Decrypt(encryptedBytes, key) ==
    LET keyBytes == Base64Decode(key)
    IN IF keyBytes.err # "" THEN <<>>
       ELSE XorDecrypt(encryptedBytes, keyBytes.bytes)

\* n is the number of key bytes, -1 for a string that is not base64
XorKeys ==
    { [fn |-> "db", n |-> n, key |-> KeyText(n)] : n \in {1, 2, 3, 5} }
    \cup { [fn |-> "db", n |-> -1, key |-> [KeyText(3) EXCEPT ![2] = NotBase64]] }
    \cup { [fn |-> "utils", n |-> n, key |-> [i \in 1..n |-> (i * 37 + 11) % 256]] :
             n \in {1, 2, 3, 5} }

XorBuffers == { [i \in 1..n |-> (i * f + 5) % 256] : n \in {0, 1, 2, 4, 7}, f \in {3, 97} }

InitXor ==
    /\ Parked
    /\ arg \in [kind : {"xor"}, k : XorKeys, b : XorBuffers]
    /\ ret = [n |-> 0, bytes |-> arg.b]

Decrypts ==
    /\ ret.n < MaxApplications
    /\ ret' = [n |-> ret.n + 1,
               bytes |-> IF arg.k.fn = "db" THEN Decrypt(ret.bytes, arg.k.key)
                         ELSE XorDecrypt(ret.bytes, arg.k.key)]
    /\ UNCHANGED <<db, file, searcher, handle, loads, th, calls, geoIn, geoOut,
                   closes, opened, arg>>

NextXor == Decrypts

SpecXor == InitXor /\ [][NextXor]_vars

(***************************************************************************)
(* SpecCompare: the two byte comparisons, called on slices of up to        *)
(* MaxLen bytes.  fn "db" is compareBytes of db_searcher.go, fn "utils"    *)
(* is CompareBytes of byte_utils.go.                                       *)
(***************************************************************************)
MaxLen == 3

RECURSIVE CompareBytesFrom(_, _, _, _)
CompareBytesFrom(bytes1, bytes2, length, i) ==
    IF i >= length THEN 0
    ELSE IF i >= Len(bytes1) \/ i >= Len(bytes2) THEN Len(bytes1) - Len(bytes2)
    ELSE IF bytes1[i + 1] # bytes2[i + 1] THEN bytes1[i + 1] - bytes2[i + 1]
    ELSE CompareBytesFrom(bytes1, bytes2, length, i + 1)

CompareBytes(bytes1, bytes2, length) == CompareBytesFrom(bytes1, bytes2, length, 0)

CmpSlices == UNION { [1..n -> {1, 127, 128}] : n \in 0..MaxLen }

InitCompare ==
    /\ Parked
    /\ arg \in [kind : {"cmp"}, fn : {"db", "utils"}, a : CmpSlices, b : CmpSlices,
                 n : 0..MaxLen]
    /\ ret = NoArg

Compared ==
    Returned([v |-> IF arg.fn = "db" THEN compareBytes(arg.a, arg.b, arg.n)
                    ELSE CompareBytes(arg.a, arg.b, arg.n)])

NextCompare == Compared

SpecCompare == InitCompare /\ [][NextCompare]_vars

(***************************************************************************)
(* What a database description says a lookup should return.                *)
(***************************************************************************)
FamilyOf(d) == IF d.dbType = 0 THEN "v4" ELSE "v6"

\* the records whose range covers key k
Covering(d, k) == { i \in 1..Len(d.recs) : d.recs[i][1] <= k /\ k <= d.recs[i][2] }

\* key k is the start IP of a header entry
IsHeaderStart(d, k) == \E i \in d.hdr : d.recs[i][1] = k

\* key k lies strictly between two consecutive ranges
InGap(d, k) ==
    \E i \in 1..(Len(d.recs) - 1) : d.recs[i][2] < k /\ k < d.recs[i + 1][1]

MaskBit(mask, b) == (mask \div (2 ^ b)) % 2

\* the selected columns of a list, in order: column i (0-based) is included
\* when bit i + 1 of the mask is set, an empty column reads "null", and a tab
\* follows each included column
RECURSIVE Rendered(_, _, _)
Rendered(cols, mask, n) ==
    IF n = 0 THEN <<>>
    ELSE Rendered(cols, mask, n - 1) \o
         (IF MaskBit(mask, n) = 1
          THEN (IF cols[n] = <<>> THEN <<110, 117, 108, 108>> ELSE cols[n]) \o <<9>>
          ELSE <<>>)

\* the geo string of record i of database d: records 1, 4, .. name the
\* column list <<"CN", "", "B">>, the others resolve to their fallback
Resolved(d, i) ==
    IF i % 3 = 1 /\ d.colSel # 0
    THEN Rendered(<<CN, <<>>, <<66>>>>, d.colSel, 3) \o FallbackOf(i)
    ELSE FallbackOf(i)

\* the result is record i's geo string, stripped or not
Returns(res, d, i) ==
    res.kind = "str" /\ cleanString(res.str) = cleanString(Resolved(d, i))

\* the finished call of the one caller of Spec
Finished == th[1].pc = "done"

(***************************************************************************)
(* Claims.                                                                 *)
(***************************************************************************)
\* C1: on a well-formed database, a query equal to a record's start IP or
\* end IP returns that record's geo string -- also when the IP equals a
\* header entry's start IP.  (Stated for IPv4 databases with a non-zero
\* column mask, where nothing else stands in the way.)  The code returns
\* "IP not found" for an IP equal to a header entry's start IP.
C1_ExactBoundaryFound ==
    (Finished /\ db.damaged = "no" /\ db.dbType = 0 /\ db.colSel # 0
        /\ th[1].ip.fam = "v4")
    => \A i \in 1..Len(db.recs) :
          th[1].ip.k \in {db.recs[i][1], db.recs[i][2]} => Returns(th[1].result, db, i)

\* C2: on a well-formed database, an IP strictly between two consecutive
\* ranges returns "IP not found", and a covered IP returns the data of the
\* range that covers it.  (IPv4 databases, non-zero column mask.)
C2_GapNotFoundCoveredFound ==
    (Finished /\ db.damaged = "no" /\ db.dbType = 0 /\ db.colSel # 0
        /\ th[1].ip.fam = "v4")
    => /\ InGap(db, th[1].ip.k) => th[1].result = NotFound
       /\ \A i \in Covering(db, th[1].ip.k) : Returns(th[1].result, db, i)

\* C3: a searcher over an IPv6 database accepts IPv6 query strings: the
\* query is searched, it is not rejected as an invalid address.
C3_IPv6QueryAccepted ==
    (Finished /\ db.damaged = "no" /\ db.dbType = 1 /\ th[1].ip.fam = "v6")
    => th[1].result.kind \in {"str", "notfound"}

\* the outcome of the same query on the same file opened in the other mode
OtherMode == IF searcher.SearchType = MEMORY THEN BTREE ELSE MEMORY

OtherModeResult ==
    LET o == InitDBSearcher(file, OtherMode)
    IN Run(file, o.s, StartCall(1, th[1].ip),
           [DBBin |-> <<>>, pos |-> o.pos, open |-> TRUE, readErr |-> FALSE,
            mover |-> 0, loads |-> 0]).l.result

\* the same data, both "IP not found", or both a failure
SameOutcome(a, b) ==
    IF a.kind \in {"err", "panic"} THEN b.kind \in {"err", "panic"}
    ELSE a.kind = b.kind /\ a.str = b.str

\* C4: for every database file and every query, MEMORY mode and BTREE mode
\* give the same outcome.
C4_ModesAgree == Finished => SameOutcome(th[1].result, OtherModeResult)

\* the result of the call when it is the only call on a fresh searcher
AloneResult(ip) ==
    LET o == InitDBSearcher(file, searcher.SearchType)
    IN Run(file, o.s, StartCall(1, ip),
           [DBBin |-> <<>>, pos |-> o.pos, open |-> TRUE, readErr |-> FALSE,
            mover |-> 0, loads |-> 0]).l.result

\* C5: in MEMORY mode concurrent searches are safe, also while the lazy
\* load runs: every call returns what it returns when run alone.
C5_MemoryThreadSafe ==
    searcher.SearchType = MEMORY
    => \A t \in Threads :
          th[t].pc = "done" => th[t].result = AloneResult(th[t].ip)

\* C6: the lazy load of the index region happens at most once.
C6_LoadAtMostOnce == searcher.SearchType = MEMORY => loads <= 1

\* C7: BTREE mode is not safe for concurrent calls.  A call that read only
\* at positions its own seeks set returns what it returns alone (for an IP
\* that is not a header entry's start IP: what the database says); a call
\* whose result differs has read at a position another call moved.
C7_BtreeDivergesOnlyOnForeignRead ==
    searcher.SearchType = BTREE
    => \A t \in Threads :
          (th[t].pc = "done" /\ ~th[t].foreign)
          => /\ th[t].result = AloneResult(th[t].ip)
             /\ ~IsHeaderStart(db, th[t].ip.k)
                => /\ \A i \in Covering(db, th[t].ip.k) : Returns(th[t].result, db, i)
                   /\ Covering(db, th[t].ip.k) = {} => th[t].result = NotFound

\* C7: an interleaving exists in which a BTREE call reads at the position
\* another call set and returns something else than it returns alone
C7_Witness ==
    /\ searcher.SearchType = BTREE
    /\ \E t \in Threads :
          /\ th[t].pc = "done" /\ th[t].foreign
          /\ th[t].result # AloneResult(th[t].ip)
          /\ \E u \in Threads \ {t} : th[u].pc = "done" /\ ~th[u].foreign

\* C8: with column mask 0 the geo buffer is left empty, and a lookup of a
\* covered IP returns the record's fallback string alone, without error.
\* (IPs that are not a header entry's start IP, which the range search finds.)
C8_MaskZeroReturnsFallback ==
    (Finished /\ db.damaged = "no" /\ db.dbType = 0 /\ db.colSel = 0
        /\ th[1].ip.fam = "v4" /\ ~IsHeaderStart(db, th[1].ip.k))
    => /\ searcher.GeoMapData = <<>>
       /\ \A i \in Covering(db, th[1].ip.k) : th[1].result = Str(FallbackOf(i))

\* C9: every string a successful search returns is cleanString of the
\* resolved string: it holds only bytes in [32, 126].
C9_ResultIsCleaned ==
    (Finished /\ th[1].result.kind = "str")
    => /\ \A j \in 1..Len(th[1].result.str) :
             th[1].result.str[j] >= 32 /\ th[1].result.str[j] <= 126
       /\ th[1].result.str = cleanString(th[1].result.str)

\* C10: GetActualGeo renders the column list: column i (0-based) is taken
\* iff bit i + 1 of the mask is set, in order, an empty column reads "null",
\* a tab follows every taken column, and the record's fallback string is
\* appended.
C10_ColumnRendering ==
    (geoOut # NoResult /\ geoIn.kind = "columns")
    => geoOut = Str(Rendered(geoIn.cols, geoIn.mask, Len(geoIn.cols)) \o geoIn.fallback)

\* C10: mask 0b110 and columns <<"CN", "", "Beijing">> give "CN\tnull\t"
\* and the fallback
C10_Witness ==
    /\ geoIn.kind = "columns" /\ geoIn.mask = 6
    /\ geoIn.cols = <<CN, <<>>, Beijing>>
    /\ geoIn.fallback = <<65>>
    /\ geoOut = Str(<<67, 78, 9, 110, 117, 108, 108, 9, 65>>)

\* C11: the resolver returns exactly the record's fallback string, without
\* error, when geoPosMixSize is 0 and when the secondary range does not lie
\* within GeoMapData.
C11_FallbackCases ==
    (geoOut # NoResult /\ geoIn.kind \in {"zero", "beyond"})
    => geoOut = Str(geoIn.fallback)

\* C12: when the range search finds a covering index record whose
\* (dataPointer, dataLength) does not lie within GeoMapData, Search returns
\* an error: neither "IP not found" nor a region string.
C12_GeoPointerOutOfBoundsIsError ==
    (Finished /\ th[1].found
        /\ (\/ th[1].dataPtr >= Len(searcher.GeoMapData)
            \/ th[1].dataPtr + th[1].dataLen > Len(searcher.GeoMapData)))
    => th[1].result.kind = "err"

\* C12: a found record whose data starts inside GeoMapData and ends after
\* its end makes the search fail
C12_Witness ==
    /\ Finished /\ th[1].found
    /\ th[1].dataPtr < Len(searcher.GeoMapData)
    /\ th[1].dataPtr + th[1].dataLen > Len(searcher.GeoMapData)
    /\ th[1].result.kind = "err"

\* C13: Close is idempotent.  CloseDBSearcher on a nil searcher changes
\* nothing; on the searcher it leaves the file handle released and the
\* searcher's fields as they were, and on an already-closed searcher it
\* changes nothing at all.  (CloseDBSearcher returns no value: it cannot fail.)
C13_CloseIdempotent ==
    [][/\ closes'.nil = closes.nil + 1
          => UNCHANGED <<searcher, handle, file, loads, th>>
       /\ closes'.searcher = closes.searcher + 1
          => /\ ~handle'.open
             /\ UNCHANGED <<searcher, file, loads, th>>
             /\ ~handle.open => handle' = handle]_vars

\* C13: the searcher was closed twice, after a search, and a nil searcher
\* was not involved
C13_Witness ==
    /\ closes.searcher = 2 /\ ~handle.open
    /\ th[1].pc = "done" /\ th[1].result.kind = "str"

\* C14: a query whose IP string is malformed, or whose address family is
\* not the database's, returns an error for that query, and the searcher
\* stays usable: the process has not crashed.
C14_BadQueryIsError ==
    (Finished /\ db.damaged = "no"
        /\ (th[1].ip.fam = "bad" \/ th[1].ip.fam # FamilyOf(db)))
    => th[1].result.kind = "err" /\ ~Crashed

\* C15: Search is deterministic across retries: a Search with the IP of the
\* call before it, on the same searcher in unchanged surroundings, returns
\* what that call returned -- a failed call, a failed lazy load included,
\* fails again in the same way.
C15_RetrySameOutcome ==
    [][(th[1].pc = "done" /\ th'[1].pc = "done" /\ th'[1].ip = th[1].ip)
       => th'[1].result = th[1].result]_vars

\* what the same search returns on a searcher opened on the regular file of
\* the same database description
RegularOpen == InitDBSearcher(FileOf([db EXCEPT !.damaged = "no"]), searcher.SearchType)

RegularResult ==
    Run(FileOf([db EXCEPT !.damaged = "no"]), RegularOpen.s, StartCall(1, th[1].ip),
        [DBBin |-> <<>>, pos |-> RegularOpen.pos, open |-> TRUE, readErr |-> FALSE,
         mover |-> 0, loads |-> 0]).l.result

\* C16: when InitDBSearcher has reported that the database size does not
\* match the file, or that the header block was read short, it has returned
\* no error, and a search on the searcher it returned ends as it does on the
\* regular file.
C16_IrregularFileOpens ==
    (opened # NoOpen /\ opened.warn \cap {SizeMismatch, IncompleteHeader} # {})
    => /\ opened.err = ""
       /\ Finished => th[1].result = RegularResult

\* C17: decrypting the encrypted block fails when the key does not decode
\* to 16, 24 or 32 bytes and fails when the ciphertext's length is not a
\* multiple of 16; otherwise it returns a plaintext of the ciphertext's
\* length, each block of it the decryption of the ciphertext's block alone.
C17_AESDecryptContract ==
    ret # NoArg =>
        LET okKey == arg.key.n \in {16, 24, 32}
            okLen == Len(arg.data) % 16 = 0
        IN /\ ~okKey => ret.err # ""
           /\ ~okLen => ret.err # ""
           /\ (okKey /\ okLen) =>
                 /\ ret.err = ""
                 /\ Len(ret.bytes) = Len(arg.data)
                 /\ \A j \in 0..(Len(arg.data) \div 16 - 1) :
                        Slice(ret.bytes, 16 * j, 16 * j + 16)
                        = DecryptEncryptedBytes(Slice(arg.data, 16 * j, 16 * j + 16),
                                                arg.key.text).bytes

C17_Witness ==
    /\ ret # NoArg /\ arg.key.n = 24 /\ Len(arg.data) = 48
    /\ ret.err = "" /\ Len(ret.bytes) = 48 /\ ret.bytes # arg.data

\* bit j of byte a, and the key bytes of a SpecXor input
BitOf(a, j) == (a \div Pow2(j)) % 2

KeyOf(k) == IF k.fn = "db" THEN Base64Decode(k.key).bytes ELSE k.key

\* C18: with a non-empty key k, one XOR decryption of b yields
\* output[i] = b[i] xor k[i mod len(k)] (i from 0), and a second one with
\* the same key yields b again.
C18_XorSelfInverse ==
    arg.k.n >= 1 =>
        /\ ret.n = 1 =>
              /\ Len(ret.bytes) = Len(arg.b)
              /\ \A i \in 0..(Len(arg.b) - 1), j \in 0..7 :
                    BitOf(ret.bytes[i + 1], j)
                    = (BitOf(arg.b[i + 1], j)
                       + BitOf(KeyOf(arg.k)[(i % arg.k.n) + 1], j)) % 2
        /\ ret.n = 2 => ret.bytes = arg.b

C18_Witness ==
    /\ ret.n = 2 /\ arg.k.n = 3 /\ Len(arg.b) = 7 /\ ret.bytes = arg.b
    /\ Decrypt(arg.b, arg.k.key) # arg.b

\* the header entries of db whose start IP is below key k: the position m
\* of an exact match, or else the insertion point l
HeaderBelow(d, k) == Cardinality({ i \in d.hdr : d.recs[i][1] < k })

C20_PointerIsLow24Bits ==
    (Finished /\ th[1].found)
    => \E i \in Covering(db, th[1].ip.k) :
          /\ th[1].dataPtr = DataPtrOf(db, i)
          /\ th[1].dataPtr < 16777216
          /\ th[1].dataLen = Len(DataRec(i))

\* the first position, from 1, at which the first n bytes of a and b differ
\* (0 when they agree), and the sign of an integer
FirstDiff(a, b, n) ==
    LET D == { i \in 1..n : a[i] # b[i] }
    IN IF D = {} THEN 0 ELSE CHOOSE i \in D : \A j \in D : i <= j

Sign(x) == IF x < 0 THEN -1 ELSE IF x > 0 THEN 1 ELSE 0

\* C21: when both slices hold at least n bytes, the comparison is 0 if their
\* first n bytes agree and otherwise has the sign given by the first
\* differing byte taken as a value 0..255; bytes after the n-th play no part.
C21_UnsignedLexicographic ==
    (ret # NoArg /\ Len(arg.a) >= arg.n /\ Len(arg.b) >= arg.n)
    => LET d == FirstDiff(arg.a, arg.b, arg.n)
       IN Sign(ret.v) = IF d = 0 THEN 0 ELSE IF arg.a[d] < arg.b[d] THEN -1 ELSE 1

C21_Witness ==
    /\ ret # NoArg /\ arg.fn = "db" /\ arg.n = 2
    /\ arg.a = <<1, 127, 128>> /\ arg.b = <<1, 128, 1>> /\ ret.v < 0

\* C22: when a holds at least n bytes, b fewer, and a agrees with b on all
\* of b's bytes, the comparison is positive.
C22_LongerSliceIsGreater ==
    (/\ ret # NoArg /\ Len(arg.a) >= arg.n /\ Len(arg.b) < arg.n
     /\ \A i \in 1..Len(arg.b) : arg.a[i] = arg.b[i])
    => ret.v > 0

\* C23: when fewer than eptr - sptr bytes lie at offset fileOffset + sptr
\* of the file (and so of the in-memory copy), the search ends with an error.
C23_ShortIndexReadIsError ==
    (/\ Finished /\ th[1].sptr # 0
     /\ th[1].eptr - th[1].sptr
            > Max(0, Len(file) - (searcher.FileOffset + th[1].sptr)))
    => th[1].result.kind = "err"

\* C24: open fails with the invalid-size error when the encrypted-block
\* size field holds 0, -1 or 1000001, and not with that error when it holds
\* 1000000; with a block of one or two cipher blocks open succeeds, the
\* padding size is the one stored in bytes 4-8 of the secret, and the super
\* block is the one at offset 12 + block size + padding size.
C24_EncryptedBlockSizeChecked ==
    opened # NoOpen =>
        /\ db.damaged \in {"size0", "sizeneg", "sizebig"}
              => opened.err = "invalid encrypted block size"
        /\ db.damaged = "sizemax"
              => opened.err \notin {"", "invalid encrypted block size"}
        /\ db.damaged \in {"no", "padded", "twoblocks"}
              => LET size == IF db.damaged = "twoblocks" THEN 32 ELSE 16
                 IN /\ opened.err = ""
                    /\ searcher.HyperHeader.EncryptedBlockSize = size
                    /\ searcher.HyperHeader.DecryptedBlock.RandomSize = RandomSize
                    /\ searcher.FileOffset = 12 + size + RandomSize
                    /\ searcher.SuperBlock.DbType = db.dbType
                    /\ searcher.SuperBlock.StartIndexPtr = IndexStart(db)

C24_Witness ==
    /\ opened # NoOpen /\ db.damaged = "twoblocks" /\ opened.err = ""
    /\ searcher.FileOffset = 44 + RandomSize
    /\ Finished /\ th[1].result.kind = "str"

\* C25: clientId is the top 12 bits of the secret's first word taken as an
\* unsigned value (the fourth byte and the high half of the third), and
\* expirationDate its low 20 bits.
C25_SecretUnpackedUnsigned ==
    ret # NoArg =>
        /\ ret.ClientId = arg.word[4] * 16 + arg.word[3] \div 16
        /\ ret.ClientId \in 0..4095
        /\ ret.ExpirationDate
              = (arg.word[3] % 16) * 65536 + arg.word[2] * 256 + arg.word[1]
        /\ ret.ExpirationDate \in 0..1048575

C27_ImmutableUnderQueries ==
    [][/\ searcher' = [searcher EXCEPT !.DBBin = searcher'.DBBin]
       /\ searcher'.DBBin # searcher.DBBin
             => /\ searcher.SearchType = MEMORY
                /\ searcher.DBBin = <<>>
                /\ searcher'.DBBin = Slice(file, searcher.FileOffset, Len(file))]_vars

\* C28: on a well-formed database, a finished Search of a well-formed query
\* IP of the database's family has returned a region string, "IP not found"
\* or an error; it has not aborted with a run-time panic.
C28_SearchNeverAborts ==
    (Finished /\ db.damaged = "no" /\ th[1].ip.fam = FamilyOf(db))
    => th[1].result.kind \in {"str", "notfound", "err"}

\* C29: when InitDBSearcher has returned an error, the file handle it
\* opened is closed.
C29_NoHandleLeak ==
    (opened # NoOpen /\ opened.err # "") => ~handle.open

\* C30: after CloseDBSearcher has been called on the searcher, a Search in
\* BTREE mode, or in MEMORY mode with DBBin still empty, ends with an error.
C30_SearchAfterCloseIsError ==
    [][(/\ closes.searcher > 0
        /\ th' # th
        /\ (searcher.SearchType = BTREE \/ searcher.DBBin = <<>>))
       => th'[1].result.kind = "err"]_vars

====
